---- MODULE Spec2Model ----
(***************************************************************************)
(* Model of netograph/ngd, command "domains" (package cli).                *)
(*                                                                         *)
(* The command reads domain names line by line, hands them to a pool of    *)
(* `concurrency` worker goroutines over a buffered channel, and each       *)
(* worker probes the bare domain, then "www."+domain, over DNS and TLS and *)
(* prints one URL per domain.                                              *)
(*                                                                         *)
(* One step of the model is one blocking operation of the code (a channel  *)
(* send or receive, a DNS exchange, a sleep, a TLS dial, a connection      *)
(* close, a write to stdout or stderr) together with the local computation *)
(* around it; the part of resolve that follows its retry loop is a step of *)
(* its own.  A write the code skips (debug off, no error) is no step.      *)
(* The network is the environment: the outcome of every DNS exchange, TLS  *)
(* dial and connection close is chosen nondeterministically from the sets  *)
(* handed to the actions.  Durations are in milliseconds.  Input lines are *)
(* shorter than bufio's 4096-byte buffer, so ReadLine returns whole lines. *)
(***************************************************************************)
EXTENDS Integers, Sequences, FiniteSets, TLC

VARIABLES
    concurrency,  \* *concurrency, the --concurrency flag
    debug,        \* *debug, the --debug flag
    input,        \* the lines of the file args[0], in order, without their newline
    ppc,          \* position of RunE: "spawn", "read", "send", "close", "wait", "done"
    i,            \* loop counter of the spawning loop
    rpos,         \* number of lines bufio.Reader r has consumed
    t,            \* the line last returned by r.ReadLine()
    ch,           \* buffered content of channel ch, oldest first
    closed,       \* whether close(ch) has run
    wg,           \* counter of the sync.WaitGroup
    workers,      \* the worker goroutines started so far, each a record of its locals
    stdout,       \* writes to os.Stdout, in order
    stderr,       \* writes to os.Stderr, in order
    faults        \* environment: how many more DNS exchanges the network lets fail,
                  \* or NoBudget when every exchange may fail

vars == <<concurrency, debug, input, ppc, i, rpos, t, ch, closed, wg, workers, stdout, stderr,
          faults>>

config == <<concurrency, debug, input>>
output == <<stdout, stderr>>
producer == <<ppc, i, rpos, t>>

----------------------------------------------------------------------------
(* Bounds of the model *)

\* largest value of the --concurrency flag in the pool specification
MaxConcurrency == 2
\* largest number of lines of the input file in the pool specification
MaxLines == 2
\* number of distinct values drawn for rand.Int() in the resolver specification
MaxRand == 2
\* largest number of records in the answer section of a DNS reply
MaxAnswer == 2
\* number of DNS exchanges that may end in an error in a run of the pool specification
PoolFaults == 1
\* number of DNS exchanges that may end in an error in a run with a single worker
MaxFaults == 5

----------------------------------------------------------------------------
(* Program constants *)

ResolverRetries == 5

Resolvers ==
    << "8.8.8.8", "8.8.4.4", "1.1.1.1", "1.0.0.1",
       "9.9.9.9", "149.112.112.112", "208.67.222.222", "208.67.220.220" >>

\* the unit step of the backoff, 100 * time.Millisecond, in milliseconds
BackoffUnitMs == 100

----------------------------------------------------------------------------
(* Formatting *)

Digits == <<"0", "1", "2", "3", "4", "5", "6", "7", "8", "9">>

\* %d of a non-negative integer
RECURSIVE Dec(_)
Dec(n) == IF n < 10 THEN Digits[n + 1] ELSE Dec(n \div 10) \o Digits[(n % 10) + 1]

\* net.IP.String() of a 4-byte IPv4 address
IPString(ip) == Dec(ip[1]) \o "." \o Dec(ip[2]) \o "." \o Dec(ip[3]) \o "." \o Dec(ip[4])

\* the elements of a []string separated by single spaces
RECURSIVE JoinSpace(_)
JoinSpace(s) ==
    IF s = <<>> THEN ""
    ELSE IF Len(s) = 1 THEN s[1]
    ELSE s[1] \o " " \o JoinSpace(Tail(s))

\* %v of a []string
FmtStrings(s) == "[" \o JoinSpace(s) \o "]"

----------------------------------------------------------------------------
(* Errors: a Go error is nil or carries a message *)

NilErr == [nil |-> TRUE, msg |-> ""]
Errorf(m) == [nil |-> FALSE, msg |-> m]

\* fmt.Errorf("failed to resolve after %d retries on %v: %s", len(resolvers), resolvers, domain)
ErrTimeout(resolvers, domain) ==
    Errorf("failed to resolve after " \o Dec(Len(resolvers)) \o " retries on "
           \o FmtStrings(resolvers) \o ": " \o domain)

\* fmt.Errorf("empty DNS answer for %s", domain)
ErrEmptyAnswer(domain) == Errorf("empty DNS answer for " \o domain)

\* fmt.Errorf("no A records for %s", domain)
ErrNoARecords(domain) == Errorf("no A records for " \o domain)

\* fmt.Errorf("%s on %s: %s", domain, ip, err)
ErrDial(domain, ip, e) == Errorf(domain \o " on " \o ip \o ": " \o e)

----------------------------------------------------------------------------
(* DNS: messages, the resolver pool, the pure parts of resolve *)

\* a *dns.Msg: nil, or a reply with its answer section
NilMsg == [nil |-> TRUE, answer |-> <<>>]
Msg(answer) == [nil |-> FALSE, answer |-> answer]

\* resource records: an A record with its 4-byte address, or a record of another type
RRA(ip) == [type |-> "A", a |-> ip]
RRCNAME == [type |-> "CNAME", a |-> <<>>]

\* Resolvers[rand.Int()%len(Resolvers)], r the value of rand.Int()
resolver(r) == Resolvers[(r % Len(Resolvers)) + 1]

\* variant of LoopBreaks: the ceiling is tested with > instead of >=
LoopBreaksLate(errNil, n) == errNil \/ n > ResolverRetries

\* variant of LoopBreaks: the ceiling is one attempt lower
LoopBreaksEarly(errNil, n) == errNil \/ n >= ResolverRetries - 1

\* variant of LoopBreaks: only the ceiling ends the loop
LoopBreaksAtCeiling(errNil, n) == n >= ResolverRetries

\* the exit test of the retry loop, after the exchange: errNil is err == nil,
\* n is len(resolvers)
LoopBreaks(errNil, n) == errNil \/ n >= ResolverRetries

\* variant of Backoff: the sleep does not grow with the attempts
BackoffConstant(n) == BackoffUnitMs

\* 100 * time.Duration(len(resolvers)) * time.Millisecond, in milliseconds
Backoff(n) == BackoffUnitMs * n

\* the loop over in.Answer: the addresses of the A records, in order
RECURSIVE ARecords(_)
ARecords(answer) ==
    IF answer = <<>> THEN <<>>
    ELSE IF Head(answer).type = "A"
         THEN <<IPString(Head(answer).a)>> \o ARecords(Tail(answer))
         ELSE ARecords(Tail(answer))

\* variant of ResolveResult: only the first address of the answer is returned
ResolveResultFirstOnly(in, resolvers, domain) ==
    IF in.nil THEN [ips |-> <<>>, err |-> ErrTimeout(resolvers, domain)]
    ELSE IF Len(in.answer) = 0 THEN [ips |-> <<>>, err |-> ErrEmptyAnswer(domain)]
    ELSE IF Len(ARecords(in.answer)) = 0 THEN [ips |-> <<>>, err |-> ErrNoARecords(domain)]
    ELSE [ips |-> <<ARecords(in.answer)[1]>>, err |-> NilErr]

\* variant of ResolveResult: an answer without A records is an empty list and no error
ResolveResultEmptyOk(in, resolvers, domain) ==
    IF in.nil THEN [ips |-> <<>>, err |-> ErrTimeout(resolvers, domain)]
    ELSE IF Len(in.answer) = 0 THEN [ips |-> <<>>, err |-> ErrEmptyAnswer(domain)]
    ELSE [ips |-> ARecords(in.answer), err |-> NilErr]

\* what resolve returns once its retry loop has ended with reply in
ResolveResult(in, resolvers, domain) ==
    IF in.nil THEN [ips |-> <<>>, err |-> ErrTimeout(resolvers, domain)]
    ELSE IF Len(in.answer) = 0 THEN [ips |-> <<>>, err |-> ErrEmptyAnswer(domain)]
    ELSE IF Len(ARecords(in.answer)) = 0 THEN [ips |-> <<>>, err |-> ErrNoARecords(domain)]
    ELSE [ips |-> ARecords(in.answer), err |-> NilErr]

----------------------------------------------------------------------------
(* The producer: RunE *)

\* the locals of a worker goroutine that has just been started
NewWorker ==
    [ pc        |-> "recv",    \* "recv", "exchange", "sleep", "resolved", "loop", "dial",
                               \* "close", "closelog", "ret", "print", "exited"
      domain    |-> "",        \* the loop variable of for domain := range ch
      current   |-> "",        \* the variant being probed
      stage     |-> 0,         \* which call of probeHttps is running: 1 or 2
      err       |-> NilErr,    \* what the call of probeHttps returned, once it has returned
      resolvers |-> <<>>,      \* resolve: the servers tried so far
      in        |-> NilMsg,    \* resolve: the reply of the last exchange
      ips       |-> <<>>,      \* probeHttps: the addresses resolve returned
      idx       |-> 0,         \* probeHttps: position of the range loop in ips
      lastErr   |-> NilErr,    \* probeHttps: lastErr
      attempts  |-> <<>>,      \* history: whether err != nil, for every exchange of this resolve call
      sleeps    |-> <<>>,      \* history: the sleeps of this resolve call, in milliseconds
      ops       |-> {},        \* history: the network operations of this probeHttps call
      dials     |-> <<>>,      \* history: the TLS dials of this probeHttps call, in order
      results   |-> <<>> ]     \* history: the probes that have returned for this domain

\* variant of SpawnMore: the loop runs once more
SpawnOneMore(k, n) == k <= n

\* the test of the spawning loop, i < *concurrency
SpawnMore(k, n) == k < n

\* wg.Add(1); go func() {...}(); i++
Spawn ==
    /\ ppc = "spawn"
    /\ SpawnMore(i, concurrency)
    /\ wg' = wg + 1
    /\ workers' = Append(workers, NewWorker)
    /\ i' = i + 1
    /\ UNCHANGED <<config, ppc, rpos, t, ch, closed, stdout, stderr, faults>>

\* the spawning loop ends
SpawnDone ==
    /\ ppc = "spawn"
    /\ ~SpawnMore(i, concurrency)
    /\ ppc' = "read"
    /\ UNCHANGED <<config, i, rpos, t, ch, closed, wg, workers, stdout, stderr, faults>>

\* variant of ReadLine: an empty line that is not the last line is skipped
ReadLineSkipsBlank(lines, pos) ==
    IF pos < Len(lines)
    THEN IF lines[pos + 1] = "" /\ pos + 1 < Len(lines) THEN lines[pos + 2] ELSE lines[pos + 1]
    ELSE ""

\* r.ReadLine(): the next line without its newline, or nothing at the end of the file
ReadLine(lines, pos) == IF pos < Len(lines) THEN lines[pos + 1] ELSE ""

\* t, _, _ := r.ReadLine(); if len(t) == 0 { break }
Read ==
    /\ ppc = "read"
    /\ t' = ReadLine(input, rpos)
    /\ rpos' = IF rpos < Len(input) THEN rpos + 1 ELSE rpos
    /\ ppc' = IF Len(t') = 0 THEN "close" ELSE "send"
    /\ UNCHANGED <<config, i, ch, closed, wg, workers, stdout, stderr, faults>>

\* variant of SendReady: the channel takes one element more than its capacity
SendReadyOverfull(q, n) == Len(q) <= n

\* when a send on ch proceeds: the buffer holds fewer than cap(ch) = n elements
SendReady(q, n) == Len(q) < n

\* ch <- string(t): blocks while the buffer is full
Send ==
    /\ ppc = "send"
    /\ SendReady(ch, concurrency)
    /\ ch' = Append(ch, t)
    /\ ppc' = "read"
    /\ UNCHANGED <<config, i, rpos, t, closed, wg, workers, stdout, stderr, faults>>

\* close(ch)
Close ==
    /\ ppc = "close"
    /\ closed' = TRUE
    /\ ppc' = "wait"
    /\ UNCHANGED <<config, i, rpos, t, ch, wg, workers, stdout, stderr, faults>>

\* variant of WaitReturns: the wait ends while one worker is still running
WaitReturnsEarly(n) == n <= 1

\* when wg.Wait() returns: the counter is zero
WaitReturns(n) == n = 0

\* wg.Wait(); return nil
Wait ==
    /\ ppc = "wait"
    /\ WaitReturns(wg)
    /\ ppc' = "done"
    /\ UNCHANGED <<config, i, rpos, t, ch, closed, wg, workers, stdout, stderr, faults>>

----------------------------------------------------------------------------
(* The workers: the goroutine body, probeHttps and resolve *)

\* the locals of worker w become r
SetWorker(w, r) == workers' = [workers EXCEPT ![w] = r]

\* entry of probeHttps and of resolve for the variant in current
StartProbe(r) ==
    [r EXCEPT !.pc = "exchange", !.err = NilErr, !.resolvers = <<>>, !.in = NilMsg,
              !.ips = <<>>, !.idx = 0, !.lastErr = NilErr,
              !.attempts = <<>>, !.sleeps = <<>>, !.ops = {}, !.dials = <<>>]

\* for domain := range ch: a value is received; current := domain; probeHttps is entered
Recv(w) ==
    /\ workers[w].pc = "recv"
    /\ ch # <<>>
    /\ ch' = Tail(ch)
    /\ SetWorker(w, StartProbe([workers[w] EXCEPT !.domain = Head(ch), !.current = Head(ch),
                                                  !.stage = 1, !.results = <<>>]))
    /\ UNCHANGED <<config, producer, closed, wg, stdout, stderr, faults>>

\* variant of RangeEnds: the range ends as soon as the channel is closed
RangeEndsOnClose(q, c) == c

\* variant of RangeEnds: the range ends as soon as the buffer is empty
RangeEndsOnEmpty(q, c) == q = <<>>

\* when the range over the channel ends: the channel is closed and its buffer is empty
RangeEnds(q, c) == c /\ q = <<>>

\* for domain := range ch ends; defer wg.Done()
Exit(w) ==
    /\ workers[w].pc = "recv"
    /\ RangeEnds(ch, closed)
    /\ wg' = wg - 1
    /\ SetWorker(w, [workers[w] EXCEPT !.pc = "exited"])
    /\ UNCHANGED <<config, producer, ch, closed, stdout, stderr, faults>>

\* the value of faults under which every exchange may fail
NoBudget == -1

\* whether the network may let one more exchange fail when its budget is f
MayFail(f) == f # 0

\* the budget f after a failed exchange; NoBudget is never used up
Spend(f) == IF f > 0 THEN f - 1 ELSE f

\* one iteration of resolve's loop up to its exit test: a server is drawn and
\* queried; o is what c.Exchange returns, the reply o.in and whether err != nil
Exchange(w, rands, outcomes) ==
    /\ workers[w].pc = "exchange"
    /\ \E r \in rands, o \in outcomes :
         LET me == workers[w]
             rs == Append(me.resolvers, resolver(r))
         IN  /\ o.err => MayFail(faults)
             /\ faults' = IF o.err THEN Spend(faults) ELSE faults
             /\ SetWorker(w, [me EXCEPT
                     !.resolvers = rs,
                     !.in = o.in,
                     !.pc = IF LoopBreaks(~o.err, Len(rs)) THEN "resolved" ELSE "sleep",
                     !.attempts = Append(@, o.err),
                     !.ops = @ \union {<<"dns", me.current>>}])
    /\ UNCHANGED <<config, producer, ch, closed, wg, stdout, stderr>>

\* time.Sleep(100 * time.Duration(len(resolvers)) * time.Millisecond)
Sleep(w) ==
    /\ workers[w].pc = "sleep"
    /\ SetWorker(w, [workers[w] EXCEPT !.pc = "exchange",
                                       !.sleeps = Append(@, Backoff(Len(workers[w].resolvers)))])
    /\ UNCHANGED <<config, producer, ch, closed, wg, stdout, stderr, faults>>

\* the rest of resolve after its loop, and probeHttps up to its range loop
\* where an iteration of probeHttps's range loop starts: at the write of lastErr
\* if debug && lastErr != nil, at tls.DialWithDialer otherwise
IterationPc(dbg, lastErr) == IF dbg /\ ~lastErr.nil THEN "loop" ELSE "dial"

Resolved(w) ==
    /\ workers[w].pc = "resolved"
    /\ LET me  == workers[w]
           res == ResolveResult(me.in, me.resolvers, me.current)
           out == [me EXCEPT !.resolvers = <<>>, !.in = NilMsg, !.attempts = <<>>, !.sleeps = <<>>]
       IN  IF ~res.err.nil
           THEN SetWorker(w, [out EXCEPT !.pc = "ret", !.err = res.err,
                                         !.results = Append(@, [name |-> me.current, ok |-> FALSE])])
           ELSE IF res.ips # <<>>
           THEN SetWorker(w, [out EXCEPT !.pc = IterationPc(debug, NilErr),
                                         !.ips = res.ips, !.idx = 1, !.lastErr = NilErr])
           ELSE \* the range loop has nothing to run over: return lastErr, which is nil
                SetWorker(w, [out EXCEPT !.pc = "ret", !.err = NilErr,
                                         !.results = Append(@, [name |-> me.current, ok |-> TRUE])])
    /\ UNCHANGED <<config, producer, ch, closed, wg, stdout, stderr, faults>>

\* variant of Fprintln: the error is printed whether dbg holds or not
FprintlnAlways(log, dbg, e) == IF ~e.nil THEN Append(log, e.msg \o "\n") ELSE log

\* fmt.Fprintln(os.Stderr, e) if dbg holds and e is not nil
Fprintln(log, dbg, e) == IF dbg /\ ~e.nil THEN Append(log, e.msg \o "\n") ELSE log

\* variant of DialTarget: the addresses are taken from the end of the list
DialTargetReversed(ips, idx) == ips[Len(ips) + 1 - idx]

\* the address of the iteration idx of for _, ip := range ips
DialTarget(ips, idx) == ips[idx]

\* variant of NewLastErr: the first error is kept
NewLastErrKeepsFirst(old, e) == IF old.nil THEN e ELSE old

\* lastErr = fmt.Errorf(...): the value of lastErr after a failed dial, old its
\* value before and e the new error
NewLastErr(old, e) == e

\* variant of AfterClose: an error of conn.Close() is returned
AfterCloseReturnsErr(c) == IF c # "" THEN Errorf(c) ELSE NilErr

\* what probeHttps returns after a successful handshake, c the error text of
\* conn.Close() ("" for none)
AfterClose(c) == NilErr

\* if debug && lastErr != nil { fmt.Fprintln(os.Stderr, lastErr) }: the write at the
\* head of an iteration
LogLastErr(w) ==
    /\ workers[w].pc = "loop"
    /\ stderr' = Fprintln(stderr, debug, workers[w].lastErr)
    /\ SetWorker(w, [workers[w] EXCEPT !.pc = "dial"])
    /\ UNCHANGED <<config, producer, ch, closed, wg, stdout, faults>>

\* tls.DialWithDialer on the address of the iteration and the test of its error: d
\* is the error text ("" for none)
Dial(w, dialErrs) ==
    /\ workers[w].pc = "dial"
    /\ \E d \in dialErrs :
         LET me   == workers[w]
             ip   == DialTarget(me.ips, me.idx)
             here == [me EXCEPT
                        !.ops = @ \union {<<"tls", me.current>>},
                        !.dials = Append(@, [ip |-> ip, sni |-> me.current,
                                             err |-> d, closeErr |-> ""])]
         IN  IF d # ""
             THEN LET e == NewLastErr(me.lastErr, ErrDial(me.current, ip, d))
                  IN  IF me.idx < Len(me.ips)
                      THEN SetWorker(w, [here EXCEPT !.pc = IterationPc(debug, e),
                                                     !.lastErr = e, !.idx = @ + 1])
                      ELSE SetWorker(w, [here EXCEPT
                               !.pc = "ret", !.err = e, !.idx = 0, !.lastErr = NilErr,
                               !.results = Append(@, [name |-> me.current, ok |-> e.nil])])
             ELSE SetWorker(w, [here EXCEPT !.pc = "close"])
    /\ UNCHANGED <<config, producer, ch, closed, wg, stdout, stderr, faults>>

\* the worker's locals when probeHttps returns after a handshake, c the error text
\* of conn.Close()
Returned(me, c) ==
    [me EXCEPT !.pc = "ret", !.err = AfterClose(c), !.idx = 0, !.lastErr = NilErr,
               !.results = Append(@, [name |-> me.current, ok |-> AfterClose(c).nil])]

\* conn.Close() on the connection of the successful handshake: c is its error text
\* ("" for none); without a write to follow, probeHttps returns
CloseConn(w, closeErrs) ==
    /\ workers[w].pc = "close"
    /\ \E c \in closeErrs :
         LET me   == workers[w]
             here == [me EXCEPT !.dials[Len(me.dials)].closeErr = c]
         IN  IF debug /\ c # ""
             THEN SetWorker(w, [here EXCEPT !.pc = "closelog"])
             ELSE SetWorker(w, Returned(here, c))
    /\ UNCHANGED <<config, producer, ch, closed, wg, stdout, stderr, faults>>

\* fmt.Fprintf(os.Stderr, "%s on %s: error on close, %s", domain, ip, err), without
\* a newline; probeHttps returns
LogClose(w) ==
    /\ workers[w].pc = "closelog"
    /\ LET me   == workers[w]
           last == me.dials[Len(me.dials)]
       IN  /\ stderr' = Append(stderr, me.current \o " on " \o last.ip
                                        \o ": error on close, " \o last.closeErr)
           /\ SetWorker(w, Returned(me, last.closeErr))
    /\ UNCHANGED <<config, producer, ch, closed, wg, stdout, faults>>

\* variant of TriesWWW: the www variant is tried whatever the first probe returned
TriesWWWAlways(stage, e) == stage = 1

\* the test after the first probeHttps: the www variant is tried if err != nil
TriesWWW(stage, e) == stage = 1 /\ ~e.nil

\* if err != nil { ...; current = "www." + domain; err = probeHttps(...) }: the entry
Fallback(w) ==
    /\ workers[w].pc = "ret"
    /\ TriesWWW(workers[w].stage, workers[w].err)
    /\ stderr' = Fprintln(stderr, debug, workers[w].err)
    /\ SetWorker(w, StartProbe([workers[w] EXCEPT !.current = "www." \o workers[w].domain,
                                                  !.stage = 2]))
    /\ UNCHANGED <<config, producer, ch, closed, wg, stdout, faults>>

\* variant of ResultLine: the https line is built from domain
ResultLineFromDomain(e, domain, current) ==
    IF ~e.nil THEN "http://" \o domain \o "/\n" ELSE "https://" \o domain \o "/\n"

\* variant of ResultLine: the http line is built from current
ResultLineFromCurrent(e, domain, current) ==
    IF ~e.nil THEN "http://" \o current \o "/\n" ELSE "https://" \o current \o "/\n"

\* the line printed for a domain: fmt.Printf("http://%s/\n", domain) if err != nil,
\* fmt.Printf("https://%s/\n", current) otherwise
ResultLine(e, domain, current) ==
    IF ~e.nil THEN "http://" \o domain \o "/\n" ELSE "https://" \o current \o "/\n"

\* variant of AfterLine: the worker stops after a domain whose probes failed
AfterLineStopsOnErr(e) == IF e.nil THEN "recv" ELSE "exited"

\* where the worker goes after the line of a domain: back to the head of
\* for domain := range ch, whatever err is
AfterLine(e) == "recv"

\* whether the second if err != nil writes err to stderr before the line is printed
LogsErr(dbg, e) == dbg /\ ~e.nil

\* if *debug { fmt.Fprintln(os.Stderr, err) } of the second if err != nil
LogErr(w) ==
    /\ workers[w].pc = "ret"
    /\ ~TriesWWW(workers[w].stage, workers[w].err)
    /\ LogsErr(debug, workers[w].err)
    /\ stderr' = Fprintln(stderr, debug, workers[w].err)
    /\ SetWorker(w, [workers[w] EXCEPT !.pc = "print"])
    /\ UNCHANGED <<config, producer, ch, closed, wg, stdout, faults>>

\* fmt.Printf of the line of the domain; the loop body ends
Emit(w) ==
    /\ \/ workers[w].pc = "print"
       \/ /\ workers[w].pc = "ret"
          /\ ~TriesWWW(workers[w].stage, workers[w].err)
          /\ ~LogsErr(debug, workers[w].err)
    /\ stdout' = Append(stdout, ResultLine(workers[w].err, workers[w].domain, workers[w].current))
    /\ SetWorker(w, [NewWorker EXCEPT !.pc = AfterLine(workers[w].err)])
    /\ UNCHANGED <<config, producer, ch, closed, wg, stderr, faults>>

----------------------------------------------------------------------------
(* The environment and the specifications *)

\* addresses a DNS reply may carry
Addr1 == <<192, 0, 2, 1>>
Addr2 == <<198, 51, 100, 27>>

\* the sequences over S of length at most n
SeqsUpTo(S, n) == UNION {[1..k -> S] : k \in 0..n}

\* what c.Exchange may return: no reply and an error, a reply with one of the
\* answer sections in answers, or an error together with a reply that carries one
\* of the answer sections in broken
Outcomes(answers, broken) ==
    {o : o \in {[in |-> NilMsg, err |-> TRUE]}
                   \union {[in |-> Msg(a), err |-> FALSE] : a \in answers}
                   \union {[in |-> Msg(a), err |-> TRUE] : a \in broken}}

\* the error texts of the TLS dial and of the close ("" for success)
DialErrs == {"", "i/o timeout"}
CloseErrs == {"", "broken pipe"}

\* the state when RunE has opened the file: no worker is started, nothing is read
InitWith(ns, dbgs, inputs, nfaults) ==
    /\ concurrency \in ns
    /\ debug \in dbgs
    /\ input \in inputs
    /\ ppc = "spawn"
    /\ i = 0
    /\ rpos = 0
    /\ t = ""
    /\ ch = <<>>
    /\ closed = FALSE
    /\ wg = 0
    /\ workers = <<>>
    /\ stdout = <<>>
    /\ stderr = <<>>
    /\ faults = nfaults

\* the steps that exist under --debug only: the writes of errors to stderr that lie
\* between two other blocking operations
DebugWrites ==
    \/ \E w \in DOMAIN workers : LogLastErr(w)
    \/ \E w \in DOMAIN workers : LogClose(w)
    \/ \E w \in DOMAIN workers : LogErr(w)

\* the steps of RunE and of the workers; with debug off these are all the steps
NextWith(rands, outcomes, dialErrs, closeErrs) ==
    \/ Spawn
    \/ SpawnDone
    \/ Read
    \/ Send
    \/ Close
    \/ Wait
    \/ \E w \in DOMAIN workers : Recv(w)
    \/ \E w \in DOMAIN workers : Exit(w)
    \/ \E w \in DOMAIN workers : Exchange(w, rands, outcomes)
    \/ \E w \in DOMAIN workers : Sleep(w)
    \/ \E w \in DOMAIN workers : Resolved(w)
    \/ \E w \in DOMAIN workers : Dial(w, dialErrs)
    \/ \E w \in DOMAIN workers : CloseConn(w, closeErrs)
    \/ \E w \in DOMAIN workers : Fallback(w)
    \/ \E w \in DOMAIN workers : Emit(w)

(* The pool: several workers and several domains, with a small network *)
PoolLines == <<"a.io", "b.io", "c.io", "d.io">>
PoolInputs == {SubSeq(PoolLines, 1, n) : n \in 0..MaxLines} \union {<<"a.io", "a.io">>}
PoolOutcomes == Outcomes({<<>>, <<RRA(Addr1)>>}, {})

Init == InitWith(1..MaxConcurrency, {FALSE}, PoolInputs, PoolFaults)
Next == NextWith({0}, PoolOutcomes, DialErrs, {""})
Spec == Init /\ [][Next]_vars

(* The pool with its scheduling.  The zone is fixed: a.io has no address, every
   other name has one.  Every exchange may fail, without a budget, so that only
   the ceiling of the retry loop ends a resolve that gets no reply; every dial
   and every close may fail.  The pool of 1..MaxConcurrency workers runs over
   an empty file and over a file of two domains; one worker alone also runs
   over a file of three domains, where RunE waits at the full channel while the
   worker is inside a probe.  The goroutine of RunE and every worker goroutine
   take a step when they can take one: c.Exchange and tls.DialWithDialer
   return, both having timeouts, and time.Sleep ends *)
LiveOutcomes(name) == Outcomes({IF name = "a.io" THEN <<>> ELSE <<RRA(Addr1)>>}, {})
LiveInputs == {<<>>, <<"a.io", "b.io">>}
LiveLongInputs == {<<"a.io", "b.io", "c.io">>}
InitLive ==
    \/ InitWith(1..MaxConcurrency, {FALSE}, LiveInputs, NoBudget)
    \/ InitWith({1}, {FALSE}, LiveLongInputs, NoBudget)
RunE == Spawn \/ SpawnDone \/ Read \/ Send \/ Close \/ Wait
Goroutine(w) ==
    /\ w \in DOMAIN workers
    /\ \/ Recv(w)
       \/ Exit(w)
       \/ Exchange(w, {0}, LiveOutcomes(workers[w].current))
       \/ Sleep(w)
       \/ Resolved(w)
       \/ Dial(w, DialErrs)
       \/ CloseConn(w, CloseErrs)
       \/ Fallback(w)
       \/ Emit(w)
NextLive ==
    \/ Spawn
    \/ SpawnDone
    \/ Read
    \/ Send
    \/ Close
    \/ Wait
    \/ \E w \in DOMAIN workers : Recv(w)
    \/ \E w \in DOMAIN workers : Exit(w)
    \/ \E w \in DOMAIN workers : Exchange(w, {0}, LiveOutcomes(workers[w].current))
    \/ \E w \in DOMAIN workers : Sleep(w)
    \/ \E w \in DOMAIN workers : Resolved(w)
    \/ \E w \in DOMAIN workers : Dial(w, DialErrs)
    \/ \E w \in DOMAIN workers : CloseConn(w, CloseErrs)
    \/ \E w \in DOMAIN workers : Fallback(w)
    \/ \E w \in DOMAIN workers : Emit(w)
Fairness == WF_vars(RunE) /\ \A w \in 1..MaxConcurrency : WF_vars(Goroutine(w))
SpecLive == InitLive /\ [][NextLive]_vars /\ Fairness

(* The fallback chain: one worker and one domain, with and without --debug *)
ChainAnswers == {<<>>, <<RRCNAME>>, <<RRA(Addr1)>>, <<RRA(Addr1), RRA(Addr2)>>}

InitChain == InitWith({1}, BOOLEAN, {<<"a.io">>}, MaxFaults)
ChainDialErrs == {"", "i/o timeout", "connection refused"}
NextChain ==
    \/ NextWith({0}, Outcomes(ChainAnswers, {<<RRA(Addr1)>>}), ChainDialErrs, CloseErrs)
    \/ DebugWrites
SpecChain == InitChain /\ [][NextChain]_vars

(* The two streams under concurrency: MaxConcurrency workers with and without
   --debug over a fixed zone: a.io has two addresses, b.io and www.b.io have an
   empty answer, every other name has one address; a query may still fail, and
   a dial and a close may fail at the servers of a.io *)
StreamOutcomes(name) ==
    Outcomes({IF name = "a.io" THEN <<RRA(Addr1), RRA(Addr2)>>
              ELSE IF name \in {"b.io", "www.b.io"} THEN <<>>
              ELSE <<RRA(Addr1)>>}, {})
StreamDialErrs(name) == IF name = "a.io" THEN DialErrs ELSE {""}
StreamCloseErrs(name) == IF name = "a.io" THEN CloseErrs ELSE {""}
InitStreams ==
    InitWith({MaxConcurrency}, BOOLEAN, {SubSeq(PoolLines, 1, MaxLines)}, PoolFaults)
NextStreams ==
    \/ Spawn
    \/ SpawnDone
    \/ Read
    \/ Send
    \/ Close
    \/ Wait
    \/ \E w \in DOMAIN workers : Recv(w)
    \/ \E w \in DOMAIN workers : Exit(w)
    \/ \E w \in DOMAIN workers : Exchange(w, {0}, StreamOutcomes(workers[w].current))
    \/ \E w \in DOMAIN workers : Sleep(w)
    \/ \E w \in DOMAIN workers : Resolved(w)
    \/ \E w \in DOMAIN workers : Dial(w, StreamDialErrs(workers[w].current))
    \/ \E w \in DOMAIN workers : CloseConn(w, StreamCloseErrs(workers[w].current))
    \/ \E w \in DOMAIN workers : Fallback(w)
    \/ \E w \in DOMAIN workers : Emit(w)
    \/ DebugWrites
SpecStreams == InitStreams /\ [][NextStreams]_vars

(* The resolver: one worker and one domain, with every shape of DNS traffic and a
   TLS server that always answers *)
Answers == SeqsUpTo({RRA(Addr1), RRA(Addr2), RRCNAME}, MaxAnswer)

InitResolve == InitWith({1}, {FALSE}, {<<"a.io">>}, MaxFaults)
NextResolve == NextWith(0..(MaxRand - 1), Outcomes(Answers, {<<RRA(Addr1)>>}), {""}, {""})
SpecResolve == InitResolve /\ [][NextResolve]_vars

(* The reader: one worker and every file of at most MaxLines + 1 lines over two
   domains and the empty line, with the network of the pool *)
InputLines == {"a.io", "b.io", ""}
InitInput == InitWith({1}, {FALSE}, SeqsUpTo(InputLines, MaxLines + 1), PoolFaults)
NextInput == NextWith({0}, PoolOutcomes, DialErrs, {""})
SpecInput == InitInput /\ [][NextInput]_vars

----------------------------------------------------------------------------
(* Properties of the pool, verified under Spec *)

\* the number of positions of the sequence s that hold an element of the set S
Count(s, S) == Cardinality({k \in 1..Len(s) : s[k] \in S})

\* the three lines that may be printed for the domain d
LinesOf(d) == {"https://" \o d \o "/\n", "https://www." \o d \o "/\n", "http://" \o d \o "/\n"}

\* the lines of the file up to its first empty line
RECURSIVE UpToBlank(_)
UpToBlank(lines) ==
    IF lines = <<>> \/ Head(lines) = "" THEN <<>>
    ELSE <<Head(lines)>> \o UpToBlank(Tail(lines))

\* the workers that are inside probeHttps
InFlight ==
    {w \in DOMAIN workers :
        workers[w].pc \in {"exchange", "sleep", "resolved", "loop", "dial", "close", "closelog"}}

\* C1: when RunE has returned and no input line is empty, stdout holds exactly one
\* line per input domain: as many lines as domains, and for every domain as many of
\* its three possible lines as the input holds occurrences of it.
C1_OneLinePerDomain ==
    (ppc = "done" /\ \A k \in 1..Len(input) : input[k] # "")
        => /\ Len(stdout) = Len(input)
           /\ \A k \in 1..Len(input) :
                Count(stdout, LinesOf(input[k])) = Count(input, {input[k]})

\* two workers have served two domains and the second domain's line came out first
C1_Witness ==
    /\ ppc = "done"
    /\ concurrency = 2
    /\ input = <<"a.io", "b.io">>
    /\ Len(stdout) = 2
    /\ stdout[1] \in LinesOf("b.io")

\* C5: at most concurrency workers are inside probeHttps at once; never more than
\* concurrency workers exist, and once the spawning loop has ended exactly
\* concurrency workers exist.
C5_AtMostNInFlight ==
    /\ Cardinality(InFlight) <= concurrency
    /\ Len(workers) <= concurrency
    /\ ppc # "spawn" => Len(workers) = concurrency

\* both workers of a pool of two are inside probeHttps
C5_Witness ==
    /\ concurrency = 2
    /\ Cardinality(InFlight) = 2

\* C6: when RunE has returned the channel is closed and empty, all concurrency
\* workers exist and have exited, and every domain read has its line on stdout;
\* a worker that has exited has seen the channel closed and empty.
C6_ReturnAfterAllExited ==
    /\ ppc = "done" =>
          /\ closed
          /\ ch = <<>>
          /\ Len(workers) = concurrency
          /\ \A w \in DOMAIN workers : workers[w].pc = "exited"
          /\ Len(stdout) = Len(UpToBlank(input))
    /\ \A w \in DOMAIN workers : workers[w].pc = "exited" => closed /\ ch = <<>>

\* RunE has returned from a pool of two workers that served two domains
C6_Witness ==
    /\ ppc = "done"
    /\ concurrency = 2
    /\ Len(input) = 2
    /\ \A w \in DOMAIN workers : workers[w].pc = "exited"
    /\ Len(stdout) = 2

----------------------------------------------------------------------------
(* Properties of the fallback chain, verified under SpecChain *)

\* the step in which worker w prints the line of its domain
EmitStep(w) ==
    /\ workers[w].pc \in {"ret", "print"}
    /\ workers'[w].pc \notin {"ret", "print", "exchange"}

\* the network operations of the worker with locals r that were made for the www variant
WWWOps(r) == {o \in r.ops : o[2] = "www." \o r.domain}

Probed(name, ok) == [name |-> name, ok |-> ok]

\* C2: at any moment, a worker has sent a DNS query or tried a handshake for
\* "www."+domain only if its probe of the bare domain has returned a failure before;
\* and when the probe of the bare domain has succeeded, the worker's next output is
\* the line https://{domain}/.
C2_BareSuccess ==
    /\ [](\A w \in DOMAIN workers :
            WWWOps(workers[w]) # {}
                => /\ workers[w].results # <<>>
                   /\ workers[w].results[1] = Probed(workers[w].domain, FALSE))
    /\ [][\A w \in DOMAIN workers :
            (EmitStep(w) /\ workers[w].results = <<Probed(workers[w].domain, TRUE)>>)
                => /\ stdout' = Append(stdout, "https://" \o workers[w].domain \o "/\n")
                   /\ WWWOps(workers[w]) = {}]_vars

\* the bare domain was probed with success and its https line is the whole output
C2_Witness ==
    /\ ppc = "done"
    /\ stdout = <<"https://a.io/\n">>

\* C3: when the probe of the bare domain has failed and the probe of "www."+domain
\* has succeeded, the worker prints exactly the one line https://www.{domain}/.
C3_WWWSuccess ==
    [][\A w \in DOMAIN workers :
         (/\ EmitStep(w)
          /\ workers[w].results = <<Probed(workers[w].domain, FALSE),
                                    Probed("www." \o workers[w].domain, TRUE)>>)
             => stdout' = Append(stdout, "https://www." \o workers[w].domain \o "/\n")]_vars

\* the www variant answered after the bare domain had failed
C3_Witness ==
    /\ ppc = "done"
    /\ stdout = <<"https://www.a.io/\n">>

\* C4: when both probes have failed, the worker prints exactly the one line
\* http://{domain}/ and ends the work on the domain: no DNS query and no dial lie
\* between the second failure and the line, only, under debug, the write of the
\* error to stderr.
C4_Degrade ==
    [][\A w \in DOMAIN workers :
         (/\ workers[w].pc \in {"ret", "print"}
          /\ workers[w].results = <<Probed(workers[w].domain, FALSE),
                                    Probed("www." \o workers[w].domain, FALSE)>>
          /\ workers'[w] # workers[w])
             => \/ /\ workers[w].pc = "ret"
                   /\ debug
                   /\ workers'[w] = [workers[w] EXCEPT !.pc = "print"]
                   /\ stdout' = stdout
                \/ /\ stdout' = Append(stdout, "http://" \o workers[w].domain \o "/\n")
                   /\ workers'[w].pc = "recv"]_vars

\* both variants failed, one at the resolution and one at the handshake
C4_Witness ==
    /\ ppc = "done"
    /\ stdout = <<"http://a.io/\n">>
    /\ debug
    /\ \E k \in 1..Len(stderr) : stderr[k] = "empty DNS answer for a.io\n"
    /\ \E k \in 1..Len(stderr) : stderr[k] = "www.a.io on 192.0.2.1: i/o timeout\n"

----------------------------------------------------------------------------
(* Properties of resolve, verified under SpecResolve *)

\* the step in which worker w leaves resolve
ReturnStep(w) == workers[w].pc = "resolved" /\ workers'[w] # workers[w]

RECURSIVE SumSeq(_)
SumSeq(s) == IF s = <<>> THEN 0 ELSE Head(s) + SumSeq(Tail(s))

\* C7: a call of resolve never sends more than 5 queries; and when its first 4
\* exchanges ended in an error and the 5th brought a reply, resolve does not return
\* the timeout error but what the answer section of that reply gives: the
\* addresses of its A records, or the error for an answer without any.
C7_FifthReplyUsed ==
    /\ [](\A w \in DOMAIN workers :
            /\ Len(workers[w].resolvers) <= 5
            /\ Len(workers[w].attempts) = Len(workers[w].resolvers))
    /\ [][\A w \in DOMAIN workers :
            (/\ ReturnStep(w)
             /\ Len(workers[w].attempts) = 5
             /\ \A k \in 1..4 : workers[w].attempts[k]
             /\ ~workers[w].in.nil)
                => LET addrs == ARecords(workers[w].in.answer)
                   IN  /\ workers'[w].err # ErrTimeout(workers[w].resolvers, workers[w].current)
                       /\ addrs # <<>> => /\ workers'[w].pc = "dial"
                                          /\ workers'[w].ips = addrs
                       /\ addrs = <<>> => /\ workers'[w].pc = "ret"
                                          /\ ~workers'[w].err.nil]_vars

\* four exchanges failed, the fifth was answered, and resolve has returned its address
C7_Witness ==
    \E w \in DOMAIN workers :
        /\ workers[w].pc = "dial"
        /\ workers[w].stage = 1
        /\ workers[w].ips = <<"198.51.100.27">>
        /\ faults = MaxFaults - 4

\* C8: resolve ends its loop without a reply only after exactly 5 exchanges that all
\* ended in an error, and then returns the error "failed to resolve after 5 retries
\* on [...]: name" that lists the 5 servers queried, in order; the loop never goes on
\* after the 5th exchange.
C8_TimeoutAfterFive ==
    /\ [](\A w \in DOMAIN workers :
            workers[w].pc = "sleep" => Len(workers[w].resolvers) < 5)
    /\ [][\A w \in DOMAIN workers :
            (ReturnStep(w) /\ workers[w].in.nil)
                => /\ Len(workers[w].resolvers) = 5
                   /\ \A k \in 1..5 : workers[w].attempts[k]
                   /\ \A k \in 1..5 : \E n \in 1..Len(Resolvers) :
                                          workers[w].resolvers[k] = Resolvers[n]
                   /\ workers'[w].pc = "ret"
                   /\ workers'[w].err.msg =
                        "failed to resolve after 5 retries on ["
                            \o workers[w].resolvers[1] \o " " \o workers[w].resolvers[2] \o " "
                            \o workers[w].resolvers[3] \o " " \o workers[w].resolvers[4] \o " "
                            \o workers[w].resolvers[5] \o "]: " \o workers[w].current]_vars

\* resolve has failed on the bare domain after five unanswered queries
C8_Witness ==
    \E w \in DOMAIN workers :
        /\ workers[w].pc = "ret"
        /\ workers[w].err.msg =
             "failed to resolve after 5 retries on [8.8.8.8 8.8.4.4 8.8.8.8 8.8.8.8 8.8.4.4]: a.io"

\* C9: an exchange that returned without error is the last one of its call: the loop
\* has ended with its reply in hand, no query follows it and no sleep follows it.
C9_StopOnReply ==
    \A w \in DOMAIN workers :
        \A k \in 1..Len(workers[w].attempts) :
            ~workers[w].attempts[k]
                => /\ k = Len(workers[w].attempts)
                   /\ workers[w].pc = "resolved"
                   /\ ~workers[w].in.nil
                   /\ Len(workers[w].resolvers) = k
                   /\ Len(workers[w].sleeps) = k - 1

\* the second exchange was answered, with an empty answer section, after one sleep
C9_Witness ==
    \E w \in DOMAIN workers :
        /\ workers[w].pc = "resolved"
        /\ workers[w].attempts = <<TRUE, FALSE>>
        /\ workers[w].in = Msg(<<>>)
        /\ workers[w].sleeps = <<100>>

\* C10: the k-th sleep of a call lasts 100 * k milliseconds and follows the k-th
\* exchange, which ended in an error; every exchange but the last of the call is
\* followed by a sleep and the last one by none, so a call sleeps at most 4 times
\* and at most 1000 milliseconds in all.
C10_LinearBackoff ==
    \A w \in DOMAIN workers :
        LET r == workers[w]
        IN  /\ Len(r.sleeps) <= 4
            /\ \A k \in 1..Len(r.sleeps) : r.sleeps[k] = 100 * k /\ r.attempts[k]
            /\ SumSeq(r.sleeps) <= 1000
            /\ r.pc = "exchange" => Len(r.sleeps) = Len(r.attempts)
            /\ r.pc \in {"sleep", "resolved"} => Len(r.sleeps) = Len(r.attempts) - 1
            /\ r.pc = "sleep" => Len(r.attempts) < 5

\* five exchanges failed: four sleeps of 100, 200, 300 and 400 ms, none after the fifth
C10_Witness ==
    \E w \in DOMAIN workers :
        /\ workers[w].pc = "resolved"
        /\ Len(workers[w].attempts) = 5
        /\ workers[w].in.nil
        /\ workers[w].sleeps = <<100, 200, 300, 400>>

----------------------------------------------------------------------------
(* probeHttps: the range loop over the resolved addresses; verified under SpecChain *)

\* C11: the handshakes of one probeHttps call go through the resolved addresses
\* one at a time in list order: the k-th dial is on the k-th address, the loop
\* stands at address i+1 only after the dials on 1..i failed, and a handshake
\* that succeeds is the last one of the call, which returns success.
C11_InOrderUntilSuccess ==
    \A w \in DOMAIN workers :
        LET me == workers[w]
            n  == Len(me.dials)
        IN  /\ n <= Len(me.ips)
            /\ \A k \in 1..n : me.dials[k].ip = me.ips[k]
            /\ \A k \in 1..n : me.dials[k].err = ""
                                  => /\ k = n
                                     /\ me.pc \in {"close", "closelog", "ret"}
                                     /\ me.pc = "ret" => me.err.nil
            /\ me.pc \in {"loop", "dial"} => n = me.idx - 1

\* the first address refused the handshake, the second one accepted it
C11_Witness ==
    \E w \in DOMAIN workers :
        /\ workers[w].ips = <<"192.0.2.1", "198.51.100.27">>
        /\ Len(workers[w].dials) = 2
        /\ workers[w].dials[1].err # ""
        /\ workers[w].dials[2].err = ""
        /\ workers[w].pc = "ret"

\* C12: when the handshake fails on every address of a non-empty list, probeHttps
\* returns a failure, and its error is the one of the dial on the last address of
\* the list: it names that address and carries that dial's error.
C12_LastDialError ==
    \A w \in DOMAIN workers :
        LET me == workers[w]
            n  == Len(me.ips)
        IN  (/\ me.pc = "ret"
             /\ n > 0
             /\ Len(me.dials) = n
             /\ \A k \in 1..n : me.dials[k].err # "")
            => /\ ~me.err.nil
               /\ me.err.msg = me.current \o " on " \o me.ips[n] \o ": " \o me.dials[n].err
               /\ me.results[Len(me.results)] = Probed(me.current, FALSE)

\* both addresses refused the handshake, each with an error of its own
C12_Witness ==
    \E w \in DOMAIN workers :
        /\ workers[w].pc = "ret"
        /\ workers[w].ips = <<"192.0.2.1", "198.51.100.27">>
        /\ Len(workers[w].dials) = 2
        /\ workers[w].dials[1].err = "i/o timeout"
        /\ workers[w].dials[2].err = "connection refused"
        /\ workers[w].err.msg = "a.io on 198.51.100.27: connection refused"

\* C13: an error of conn.Close() after a successful handshake does not change the
\* result of the probe: the call returns success, at once or after the write of
\* the close error to stderr under debug, and the worker's step after the return
\* prints the https line of that variant, with no further dial and no further variant.
C13_CloseErrorSwallowed ==
    [][\A w \in DOMAIN workers :
         LET me == workers[w]
             nx == workers'[w]
             n  == Len(me.dials)
         IN  (n > 0 /\ me.dials[n].err = "" /\ me.dials[n].closeErr # "")
             => /\ me.pc \in {"closelog", "ret"}
                /\ me.pc = "ret" => me.err.nil
                /\ nx # me
                   => IF me.pc = "closelog"
                      THEN nx.pc = "ret" /\ nx.err.nil /\ nx.dials = me.dials
                           /\ stdout' = stdout
                      ELSE /\ EmitStep(w)
                           /\ stdout' = Append(stdout, "https://" \o me.current \o "/\n")]_vars

\* the handshake with the www. variant succeeded and closing the connection failed
C13_Witness ==
    \E w \in DOMAIN workers :
        /\ workers[w].pc = "ret"
        /\ workers[w].current = "www.a.io"
        /\ workers[w].dials # <<>>
        /\ workers[w].dials[Len(workers[w].dials)].err = ""
        /\ workers[w].dials[Len(workers[w].dials)].closeErr = "broken pipe"
        /\ workers[w].err.nil

----------------------------------------------------------------------------
(* The pool under failures; verified under Spec *)

\* C14: a failed probe stops neither the worker nor the pool. From a probe that
\* returned an error the worker's next step is the next fallback state: the www.
\* probe after the bare one, the http line (under debug after the write of the
\* error to stderr) and the head of the receive loop after the www. one. A worker leaves the loop only at the head of the loop, when the
\* queue is closed and empty, and the wait group counts exactly the workers that
\* have not left.
C14_FailuresDoNotStop ==
    [][\A w \in DOMAIN workers :
         LET me == workers[w]
             nx == workers'[w]
         IN  /\ (me.pc \in {"ret", "print"} /\ ~me.err.nil /\ nx # me)
                => IF me.current = me.domain
                   THEN nx.pc = "exchange" /\ nx.current = "www." \o me.domain
                        /\ nx.domain = me.domain /\ stdout' = stdout
                   ELSE \/ me.pc = "ret" /\ debug /\ nx.pc = "print" /\ stdout' = stdout
                        \/ /\ nx.pc = "recv"
                           /\ stdout' = Append(stdout, "http://" \o me.domain \o "/\n")
             /\ (nx.pc = "exited" /\ me.pc # "exited")
                => me.pc = "recv" /\ closed /\ ch = <<>>
             /\ ppc # "spawn"
                => wg = Cardinality({v \in DOMAIN workers : workers[v].pc # "exited"})]_vars

\* the only worker has given up on a.io and is at work on b.io
C14_Witness ==
    /\ concurrency = 1
    /\ stdout = <<"http://a.io/\n">>
    /\ \E w \in DOMAIN workers :
           workers[w].domain = "b.io" /\ workers[w].pc \notin {"recv", "exited"}

\* the workers that hold a domain whose line is not printed yet
Holding == {w \in DOMAIN workers : workers[w].pc \notin {"recv", "exited"}}

\* C15: the queue never holds more than concurrency domains; while it holds
\* concurrency domains the producer that wants to send stays where it is, reads no
\* further line and adds nothing to the queue; the domains queued or held by a
\* worker are never more than twice concurrency.
C15_BoundedQueue ==
    [][/\ Len(ch) <= concurrency
       /\ Len(ch) + Cardinality(Holding) <= 2 * concurrency
       /\ (ppc = "send" /\ Len(ch) = concurrency)
          => /\ producer' = producer
             /\ Len(ch') <= Len(ch)]_vars

\* the queue is full and the producer stands at the send of the next domain
C15_Witness ==
    /\ ppc = "send"
    /\ Len(ch) = concurrency
    /\ t = "b.io"

----------------------------------------------------------------------------
(* resolve: from the reply to the result; verified under SpecResolve *)

\* the text of the two addresses of the model, written out
AddrText(a) == IF a = Addr1 THEN "192.0.2.1" ELSE "198.51.100.27"
IsA(rr) == rr.type = "A"

\* C16: when resolve has a reply, its result depends on the answer section only:
\* an empty section is the empty-answer failure, a section without A record the
\* no-A-records failure, and any other section gives the addresses of its A
\* records, one per record in the order of the section, records of other types left
\* out and equal addresses kept.
C16_AnswerToAddresses ==
    [][\A w \in DOMAIN workers :
         LET me  == workers[w]
             nx  == workers'[w]
             ans == me.in.answer
             as  == SelectSeq(ans, IsA)
         IN  (ReturnStep(w) /\ ~me.in.nil)
             => IF ans = <<>>
                THEN nx.pc = "ret" /\ nx.err = Errorf("empty DNS answer for " \o me.current)
                ELSE IF as = <<>>
                THEN nx.pc = "ret" /\ nx.err = Errorf("no A records for " \o me.current)
                ELSE /\ nx.pc = "dial"
                     /\ Len(nx.ips) = Len(as)
                     /\ \A k \in 1..Len(as) : nx.ips[k] = AddrText(as[k].a)]_vars

\* the reply held the same address twice and resolve has returned it twice
C16_Witness ==
    \E w \in DOMAIN workers :
        /\ workers[w].pc = "dial"
        /\ workers[w].idx = 1
        /\ workers[w].dials = <<>>
        /\ workers[w].ips = <<"192.0.2.1", "192.0.2.1">>

----------------------------------------------------------------------------
(* The two output streams; verified under SpecStreams *)

\* C17: every line on stdout is one of the three result lines of a domain of the
\* input, so no failure description is ever on stdout; nothing that is on stderr is
\* a result line; and while debug is off stderr stays empty.
C17_OutputStreams ==
    LET results == UNION {LinesOf(input[j]) : j \in 1..Len(input)}
    IN  /\ \A k \in 1..Len(stdout) : stdout[k] \in results
        /\ \A k \in 1..Len(stderr) : stderr[k] \notin results
        /\ ~debug => stderr = <<>>

\* under debug two workers have interleaved their writes to stderr: between the
\* dial error of a.io on its first address and the close error on its second one
\* lies the resolution error of b.io
C17_Witness ==
    /\ debug
    /\ Len(stderr) >= 3
    /\ stderr[1] = "a.io on 192.0.2.1: i/o timeout\n"
    /\ stderr[2] = "empty DNS answer for b.io\n"
    /\ stderr[3] = "a.io on 198.51.100.27: error on close, broken pipe"
    /\ \A k \in 1..Len(stdout) : stdout[k] \in LinesOf("a.io") \/ stdout[k] \in LinesOf("b.io")

----------------------------------------------------------------------------
(* The reader and the queue; verified under SpecInput *)

\* the domains that are queued or in the producer's hand on their way to the queue
Pending == ch \o (IF ppc = "send" THEN <<t>> ELSE <<>>)

\* how many lines of the sequence u the producer has read
ReadOf(u) == IF rpos < Len(u) THEN rpos ELSE Len(u)

\* C18: the lines are read in order up to the first empty line or the end of the
\* file. At every moment the queue, followed by the line about to be sent, is the
\* run of the lines read last, in input order; the lines read earlier are, each
\* exactly once, held by a worker or answered on stdout; nothing else is ever
\* queued, held or answered, so no line behind the first empty line is. Once the
\* reading has stopped the queue is closed with every line before the stop read,
\* and at the end of the run each of them has its line.
C18_ReadUpToBlank ==
    LET u    == UpToBlank(input)
        n    == ReadOf(u)
        q    == Pending
        busy == {w \in DOMAIN workers : workers[w].pc \notin {"recv", "exited"}}
    IN  /\ Len(q) <= n
        /\ q = SubSeq(u, n - Len(q) + 1, n)
        /\ \A d \in {"a.io", "b.io"} :
              Count(SubSeq(u, 1, n - Len(q)), {d})
                 = Cardinality({w \in busy : workers[w].domain = d})
                   + Count(stdout, LinesOf(d))
        /\ Len(stdout) + Cardinality(busy) = n - Len(q)
        /\ ppc \in {"wait", "done"} => closed
        /\ closed => n = Len(u) /\ ppc \notin {"read", "send"}
        /\ ppc = "done" => Len(stdout) = Len(u)

\* the file is a.io, an empty line, b.io: the run has ended with one line, for a.io
C18_Witness ==
    /\ input = <<"a.io", "", "b.io">>
    /\ ppc = "done"
    /\ rpos = 2
    /\ Len(stdout) = 1
    /\ stdout[1] \in LinesOf("a.io")

----------------------------------------------------------------------------
(* probeHttps: what a success stands for; verified under SpecChain *)

\* the elements of the sequence s
Range(s) == {s[k] : k \in 1..Len(s)}

\* C19: a probeHttps call that returned nil has resolved the variant's own name,
\* got a non-empty address list and ended with a successful handshake on one of
\* these addresses: never a success without a handshake. The loop over the
\* addresses is only entered with a non-empty list, and every query and every
\* handshake of the call carries the variant's name, every handshake on an
\* address of the variant's list.
C19_SuccessMeansHandshake ==
    \A w \in DOMAIN workers :
        LET me == workers[w]
            n  == Len(me.dials)
        IN  /\ (me.pc = "ret" /\ me.err.nil)
               => /\ me.ips # <<>>
                  /\ <<"dns", me.current>> \in me.ops
                  /\ n > 0
                  /\ me.dials[n].err = ""
                  /\ me.results[Len(me.results)] = Probed(me.current, TRUE)
            /\ me.pc \in {"loop", "dial", "close", "closelog"}
                  => me.ips # <<>> /\ <<"dns", me.current>> \in me.ops
            /\ \A o \in me.ops : o[2] = me.current
            /\ \A k \in 1..n : me.dials[k].sni = me.current /\ me.dials[k].ip \in Range(me.ips)

\* the www. probe has returned nil after a handshake on the second address of www.a.io
C19_Witness ==
    \E w \in DOMAIN workers :
        /\ workers[w].pc = "ret"
        /\ workers[w].err.nil
        /\ workers[w].current = "www.a.io"
        /\ workers[w].ops = {<<"dns", "www.a.io">>, <<"tls", "www.a.io">>}
        /\ workers[w].dials[Len(workers[w].dials)].ip = "198.51.100.27"
        /\ workers[w].dials[Len(workers[w].dials)].sni = "www.a.io"

----------------------------------------------------------------------------
(* Termination; verified under SpecLive *)

\* C20: under fair scheduling, with every exchange, dial and close free to fail,
\* the pool does not deadlock: a producer that stands at a send gets past it, a
\* queue that holds domains is emptied by the workers, so that every domain put
\* into it is received, and RunE returns with one line per domain.
C20_NoDeadlock ==
    /\ (ppc = "send") ~> (ppc # "send")
    /\ (ch # <<>>) ~> (ch = <<>>)
    /\ <>(ppc = "done" /\ Len(stdout) = Len(input))

\* the producer stands at a send that the full queue does not accept, while the
\* worker has failed on a.io and has come back from the probe of www.a.io with
\* the error of five failed exchanges
C20_Witness ==
    /\ ppc = "send"
    /\ t = "c.io"
    /\ Len(ch) = concurrency
    /\ \E w \in DOMAIN workers :
          /\ workers[w].pc = "ret"
          /\ workers[w].stage = 2
          /\ workers[w].domain = "a.io"
          /\ workers[w].err.msg =
               "failed to resolve after 5 retries on [8.8.8.8 8.8.8.8 8.8.8.8 8.8.8.8 8.8.8.8]: www.a.io"

====
